---- MODULE Spec2Model ----
(***************************************************************************)
(* Model of the keypad matrix driver (src/src/lib.rs) together with the    *)
(* mock pins of src/src/mock_hal.rs.                                       *)
(*                                                                         *)
(* A KeypadInput holds a row pin and a RefCell around a column pin.  Its   *)
(* is_low() borrows the column mutably, drives it low, drops the borrow,   *)
(* reads the row, borrows the column again, drives it high and drops the   *)
(* borrow.  The model follows one read step by step in each of two         *)
(* execution contexts: "main", and "nested", a read that starts while a    *)
(* read of "main" is in flight (an interrupt service routine or a call     *)
(* made from inside a pin implementation) and runs to its end before       *)
(* "main" continues.                                                       *)
(*                                                                         *)
(* The struct generated by keypad_struct! owns the row pins and the        *)
(* RefCells around the column pins.  decompose() borrows it and builds the *)
(* grid of KeypadInputs; release() consumes it and hands the pins back.    *)
(***************************************************************************)
EXTENDS Integers, Sequences, FiniteSets

(* ------------------------------ bounds -------------------------------- *)

NumRows == 2

NumCols == 2

MaxPressed == 1

MaxGrids == 2

(* ------------------------------ domains ------------------------------- *)

Rows == 0 .. (NumRows - 1)

Cols == 0 .. (NumCols - 1)

Keys == Rows \X Cols

Ctx == {"main", "nested"}

Errors == {"E1", "E2"}

State == {"High", "Low", "Float"}

Kinds == {"OpenDrain", "PushPull"}

InputKinds == {"PullUp", "Floating"}

Methods == {"is_low", "is_high"}

\* The container's life: it exists from keypad_new! until release(self)
\* has moved its pins out.
Lifecycle == {"Active", "Released"}

VARIABLES
    pressed,    \* the keys physically held down (the circuit's switches)
    colKind,    \* the mode of the column pins' type
    colState,   \* per column: the `state` field of the output pin
    borrow,     \* per column: who holds the RefCell's mutable borrow
    pc,         \* per context: position inside KeypadInput::is_low
    row,        \* per context: KeypadInput.row of the read in flight
    col,        \* per context: KeypadInput.col of the read in flight
    out,        \* per context: the local `out` of is_low
    ret,        \* per context: what is_low returned
    log,        \* per context: the pin operations the read performed
    pre,        \* per context: level of the read's column when it began
    quiet,      \* per context: no other column was low when the read began
    ovl,        \* per context: which reads were in flight during this one
    panicked,   \* the context whose read panicked, or "none"
    rowKind,    \* the mode of the row pins' type
    meth,       \* per context: the InputPin method the caller invoked
    hret,       \* per context: what is_high returned
    first,      \* the first result a caller got from a read
    kstate,     \* the container: "Active" or "Released"
    keypad,     \* the container's fields `rows` and `columns`
    given,      \* the pins handed to keypad_new!
    grids,      \* the grids of KeypadInputs that are alive
    released,   \* what release() returned
    lastOp      \* the last operation on the container or its grids

\* the state of the pins and of the reads in flight
rvars == <<pressed, colKind, colState, borrow, pc, row, col, out, ret, log,
           pre, quiet, ovl, panicked>>

\* the state of the container
kvars == <<kstate, keypad, given, grids, released, lastOp>>

vars == <<pressed, colKind, colState, borrow, pc, row, col, out, ret, log,
          pre, quiet, ovl, panicked, rowKind, meth, hret, first, kstate,
          keypad, given, grids, released, lastOp>>

(* --------------------------- mock_hal pins ---------------------------- *)

\* Default for $Pin<Output<PushPull>> and $Pin<Output<OpenDrain>>
DefaultState(kind) == IF kind = "PushPull" THEN "Low" ELSE "Float"

\* Variant of set_high that drives the pin low, like set_low.
set_high_drives_low(kind) == "Low"

\* OutputPin::set_high: push-pull drives high, open-drain floats
set_high(kind) == IF kind = "PushPull" THEN "High" ELSE "Float"

\* OutputPin::set_low
set_low(kind) == "Low"

\* The level at which a column of this kind is not asserted: high for a
\* push-pull output, floating for an open-drain output
Inactive(kind) == IF kind = "PushPull" THEN "High" ELSE "Float"

\* Variant of pin_is_low with the two match arms exchanged.
pin_is_low_inverted(state) == state = "High"

\* InputPin::is_low of a mock input: Low => true, High => false
pin_is_low(state) == state = "Low"

\* Variant of DefaultInput in which a pull-up input comes up floating too.
DefaultInputFloats(kind) == "Float"

\* Default for $Pin<Input<Floating>> and $Pin<Input<PullUp>>
DefaultInput(kind) == IF kind = "Floating" THEN "Float" ELSE "High"

\* The circuit: a row has a pull-up and is pulled low through a closed key
\* whose column is driven low.  A row input without pull-up is floating.
RowState(r) ==
    IF DefaultInput(rowKind) = "Float" THEN "Float"
    ELSE IF \E c \in Cols : <<r, c>> \in pressed /\ colState[c] = "Low"
         THEN "Low" ELSE "High"

(* ------------------------------ results ------------------------------- *)

NoRet == [tag |-> "None", val |-> FALSE, err |-> "-"]

Ok(b) == [tag |-> "Ok", val |-> b, err |-> "-"]

Err(e) == [tag |-> "Err", val |-> FALSE, err |-> e]

Op(name, pin, res) == [op |-> name, pin |-> pin, res |-> res]

Results == {"Ok"} \cup Errors

(* ------------------------------ contexts ------------------------------ *)

Other(p) == IF p = "main" THEN "nested" ELSE "main"

Running(p) == pc[p] \notin {"idle", "done"}

\* A nested read runs to its end before the interrupted one continues, and
\* nothing runs after a panic.
CanStep(p) == panicked = "none" /\ (p = "main" => pc["nested"] = "idle")

Rel(c, d) == IF c = d THEN "same" ELSE "other"

Join(a, b) == IF a = "same" \/ b = "same" THEN "same" ELSE b

(* ---------------------------- the container --------------------------- *)

\* The sequence s turned left by k places.
Rotate(s, k) == [i \in 1 .. Len(s) |-> s[((i - 1 + k) % Len(s)) + 1]]

\* The row pins and the column pins a caller may hand to keypad_new!: the
\* first NumRows pins of the port and the next NumCols, in some rotation.
RowPins == [i \in 1 .. NumRows |-> i - 1]

ColPins == [i \in 1 .. NumCols |-> NumRows + i - 1]

RefCell(pin) == [cell |-> pin]

\* Variant of keypad_new that stores the columns last to first.
keypad_new_reversed(rows, columns) ==
    [rows |-> rows,
     columns |-> [i \in 1 .. Len(columns) |->
                     RefCell(columns[Len(columns) + 1 - i])]]

\* keypad_new!: rows as given, every column inside a fresh RefCell.
keypad_new(rows, columns) ==
    [rows |-> rows,
     columns |-> [i \in 1 .. Len(columns) |-> RefCell(columns[i])]]

\* KeypadInput::new
KeypadInputNew(r, c) == [row |-> r, col |-> c]

RECURSIVE Count(_)
\* @count: 0usize + 1usize for every token
Count(types) == IF types = <<>> THEN 0 ELSE 1 + Count(Tail(types))

\* @destructure_ref: one `_` for every type of repeat_n, then `ref nth`:
\* a reference to the field of the tuple that follows that many fields.
\* A reference is modelled by the index of the field it points at.
DestructureRef(repeat_n) == Count(repeat_n)

RECURSIVE TupleHelperAppends(_, _)
\* Variant of TupleHelper that puts each reference behind the results.
TupleHelperAppends(types, result) ==
    IF Len(types) = 1
    THEN result \o << DestructureRef(<<>>) >>
    ELSE TupleHelperAppends(Tail(types),
                            result \o << DestructureRef(Tail(types)) >>)

\* Variant of Tuple built with TupleHelperAppends.
TupleAppends(types) == TupleHelperAppends(types, <<>>)

RECURSIVE TupleHelper(_, _)
\* @tuple_helper: with one type left, the array of the reference to the
\* first field followed by the results; otherwise drop the head type and
\* put the reference to the field after the remaining types' count of
\* fields in front of the results.
TupleHelper(types, result) ==
    IF Len(types) = 1
    THEN << DestructureRef(<<>>) >> \o result
    ELSE TupleHelper(Tail(types),
                     << DestructureRef(Tail(types)) >> \o result)

\* @tuple: the array of references to the fields of a tuple
Tuple(types) == TupleHelper(types, <<>>)

\* decompose(&'a self): out[r][c] = KeypadInput::new(rows[r], columns[c])
decompose(k) ==
    LET rows == Tuple(k.rows)
        columns == Tuple(k.columns)
    IN  [r \in 0 .. (Len(rows) - 1) |->
            [c \in 0 .. (Len(columns) - 1) |->
                KeypadInputNew(rows[r + 1], columns[c + 1])]]

\* Variant of release that hands the rows back in reverse order.
release_reversed(k) ==
    << [i \in 1 .. Len(k.rows) |-> k.rows[Len(k.rows) + 1 - i]], k.columns >>

\* release(self): (self.rows, self.columns)
release(k) == << k.rows, k.columns >>

\* nothing has been returned by release()
NoPins == << <<>>, <<>> >>

\* the row pin and the column pin a KeypadInput refers to
RowPinOf(k, input) == k.rows[input.row + 1]

ColPinOf(k, input) == k.columns[input.col + 1].cell

NoFirst ==
    [set |-> FALSE, key |-> <<0, 0>>, val |-> FALSE, calm |-> FALSE,
     mixed |-> FALSE]

(* ------------------------------- Init --------------------------------- *)

\* No read is in flight and no RefCell is borrowed.
Fresh ==
    /\ borrow = [c \in Cols |-> "free"]
    /\ pc = [p \in Ctx |-> "idle"]
    /\ row = [p \in Ctx |-> 0]
    /\ col = [p \in Ctx |-> 0]
    /\ out = [p \in Ctx |-> FALSE]
    /\ ret = [p \in Ctx |-> NoRet]
    /\ log = [p \in Ctx |-> <<>>]
    /\ pre = [p \in Ctx |-> "High"]
    /\ quiet = [p \in Ctx |-> FALSE]
    /\ ovl = [p \in Ctx |-> "none"]
    /\ panicked = "none"
    /\ meth = [p \in Ctx |-> "is_low"]
    /\ hret = [p \in Ctx |-> NoRet]
    /\ first = NoFirst

\* The program of examples/basic.rs up to its first read: the container
\* built from the pins in port order, and one grid taken from it.
Decomposed ==
    /\ given = [rows |-> RowPins, columns |-> ColPins]
    /\ keypad = keypad_new(given.rows, given.columns)
    /\ kstate = "Active"
    /\ grids = << decompose(keypad) >>
    /\ released = NoPins
    /\ lastOp = "decompose"

\* keypad_new!: rows as given, every column inside a fresh RefCell; mock
\* pins come out of into_*_output() in their default state.
Init ==
    /\ pressed \in {s \in SUBSET Keys : Cardinality(s) <= MaxPressed}
    /\ colKind \in Kinds
    /\ colState = [c \in Cols |-> DefaultState(colKind)]
    /\ rowKind = "PullUp"
    /\ Fresh
    /\ Decomposed

\* The mock pins in every mode the rows and the columns can have.
MockInit ==
    /\ pressed \in {s \in SUBSET Keys : Cardinality(s) <= MaxPressed}
    /\ colKind \in Kinds
    /\ colState = [c \in Cols |-> DefaultState(colKind)]
    /\ rowKind \in InputKinds
    /\ Fresh
    /\ Decomposed

\* keypad_new! over the row pins and the column pins in any rotation; no
\* grid has been taken yet.  No key is pressed: what the reads return
\* plays no part in the life of the container.
ContainerInit ==
    /\ pressed = {}
    /\ colKind \in Kinds
    /\ colState = [c \in Cols |-> DefaultState(colKind)]
    /\ rowKind = "PullUp"
    /\ Fresh
    /\ \E i \in 0 .. (NumRows - 1), j \in 0 .. (NumCols - 1) :
          given = [rows |-> Rotate(RowPins, i), columns |-> Rotate(ColPins, j)]
    /\ keypad = keypad_new(given.rows, given.columns)
    /\ kstate = "Active"
    /\ grids = <<>>
    /\ released = NoPins
    /\ lastOp = "new"

(* ------------------------------ actions ------------------------------- *)

\* Variant of Start whose column is reached without the RefCell's check
\* (as through an UnsafeCell): the borrow is taken even when it is held.
StartUnchecked(p, r, c) ==
    /\ panicked = "none"
    /\ pc[p] = "idle"
    /\ IF p = "nested" THEN Running("main") ELSE pc["nested"] = "idle"
    /\ row' = [row EXCEPT ![p] = r]
    /\ col' = [col EXCEPT ![p] = c]
    /\ pre' = [pre EXCEPT ![p] = colState[c]]
    /\ quiet' = [quiet EXCEPT ![p] = \A d \in Cols \ {c} : colState[d] # "Low"]
    /\ ovl' = [q \in Ctx |->
                 IF q = p
                 THEN IF Running(Other(p)) THEN Rel(c, col[Other(p)]) ELSE "none"
                 ELSE IF Running(q) THEN Join(ovl[q], Rel(col[q], c)) ELSE ovl[q]]
    /\ borrow' = [borrow EXCEPT ![c] = p]
    /\ pc' = [pc EXCEPT ![p] = "low_write"]
    /\ UNCHANGED <<pressed, colKind, colState, out, ret, log, panicked>>

\* Variant of Start whose column sits behind a lock instead of a RefCell:
\* when the borrow is held the read waits for it.
StartWaits(p, r, c) ==
    /\ panicked = "none"
    /\ pc[p] = "idle"
    /\ IF p = "nested" THEN Running("main") ELSE pc["nested"] = "idle"
    /\ row' = [row EXCEPT ![p] = r]
    /\ col' = [col EXCEPT ![p] = c]
    /\ pre' = [pre EXCEPT ![p] = colState[c]]
    /\ quiet' = [quiet EXCEPT ![p] = \A d \in Cols \ {c} : colState[d] # "Low"]
    /\ ovl' = [q \in Ctx |->
                 IF q = p
                 THEN IF Running(Other(p)) THEN Rel(c, col[Other(p)]) ELSE "none"
                 ELSE IF Running(q) THEN Join(ovl[q], Rel(col[q], c)) ELSE ovl[q]]
    /\ IF borrow[c] = "free"
       THEN /\ borrow' = [borrow EXCEPT ![c] = p]
            /\ pc' = [pc EXCEPT ![p] = "low_write"]
       ELSE /\ pc' = [pc EXCEPT ![p] = "low_borrow"]
            /\ borrow' = borrow
    /\ UNCHANGED <<pressed, colKind, colState, out, ret, log, panicked>>

\* A caller invokes is_low() on the KeypadInput of key (r, c); the first
\* thing is_low does is self.col.borrow_mut(), which panics when the
\* RefCell is already mutably borrowed.
Start(p, r, c) ==
    /\ panicked = "none"
    /\ pc[p] = "idle"
    /\ IF p = "nested" THEN Running("main") ELSE pc["nested"] = "idle"
    /\ row' = [row EXCEPT ![p] = r]
    /\ col' = [col EXCEPT ![p] = c]
    /\ pre' = [pre EXCEPT ![p] = colState[c]]
    /\ quiet' = [quiet EXCEPT ![p] = \A d \in Cols \ {c} : colState[d] # "Low"]
    /\ ovl' = [q \in Ctx |->
                 IF q = p
                 THEN IF Running(Other(p)) THEN Rel(c, col[Other(p)]) ELSE "none"
                 ELSE IF Running(q) THEN Join(ovl[q], Rel(col[q], c)) ELSE ovl[q]]
    /\ IF borrow[c] = "free"
       THEN /\ borrow' = [borrow EXCEPT ![c] = p]
            /\ pc' = [pc EXCEPT ![p] = "low_write"]
            /\ panicked' = panicked
       ELSE /\ panicked' = p
            /\ pc' = [pc EXCEPT ![p] = "low_borrow"]
            /\ borrow' = borrow
    /\ UNCHANGED <<pressed, colKind, colState, out, ret, log>>

\* Variant of Write that drives the next column instead of the read's own.
WriteNeighbour(p, name, level, res, took) ==
    /\ CanStep(p)
    /\ res = "Ok" => took
    /\ colState' = IF took
                   THEN [colState EXCEPT ![(col[p] + 1) % NumCols] = level]
                   ELSE colState
    /\ log' = [log EXCEPT ![p] = Append(@, Op(name, col[p], res))]
    /\ borrow' = [borrow EXCEPT ![col[p]] = "free"]
    /\ UNCHANGED <<pressed, colKind, row, col, out, pre, quiet, ovl, panicked>>

\* Variant of Write that keeps the RefMut alive after the statement (as a
\* `let guard = self.col.borrow_mut();` held to the end of is_low would).
WriteKeepsBorrow(p, name, level, res, took) ==
    /\ CanStep(p)
    /\ res = "Ok" => took
    /\ colState' = IF took THEN [colState EXCEPT ![col[p]] = level]
                           ELSE colState
    /\ log' = [log EXCEPT ![p] = Append(@, Op(name, col[p], res))]
    /\ UNCHANGED <<pressed, colKind, borrow, row, col, out, pre, quiet, ovl,
                   panicked>>

\* A write to the borrowed column pin, the drop of the RefMut temporary at
\* the end of the statement, and `?`.  A pin that reports an error may or
\* may not have changed its level.
Write(p, name, level, res, took) ==
    /\ CanStep(p)
    /\ res = "Ok" => took
    /\ colState' = IF took THEN [colState EXCEPT ![col[p]] = level]
                           ELSE colState
    /\ log' = [log EXCEPT ![p] = Append(@, Op(name, col[p], res))]
    /\ borrow' = [borrow EXCEPT ![col[p]] = "free"]
    /\ UNCHANGED <<pressed, colKind, row, col, out, pre, quiet, ovl, panicked>>

\* Variant of SetLow without the `?`: the error of set_low is dropped and
\* the read goes on to sample the row.
SetLowIgnoresError(p, res, took) ==
    /\ pc[p] = "low_write"
    /\ Write(p, "set_low", set_low(colKind), res, took)
    /\ ret' = ret
    /\ pc' = [pc EXCEPT ![p] = "sample"]

\* Variant of SetLow that keeps the RefMut when set_low fails (as an early
\* return that forgets the guard would).
SetLowLeaksOnError(p, res, took) ==
    /\ pc[p] = "low_write"
    /\ CanStep(p)
    /\ res = "Ok" => took
    /\ colState' = IF took THEN [colState EXCEPT ![col[p]] = set_low(colKind)]
                           ELSE colState
    /\ log' = [log EXCEPT ![p] = Append(@, Op("set_low", col[p], res))]
    /\ borrow' = IF res = "Ok" THEN [borrow EXCEPT ![col[p]] = "free"]
                               ELSE borrow
    /\ ret' = IF res = "Ok" THEN ret ELSE [ret EXCEPT ![p] = Err(res)]
    /\ pc' = [pc EXCEPT ![p] = IF res = "Ok" THEN "sample" ELSE "done"]
    /\ UNCHANGED <<pressed, colKind, row, col, out, pre, quiet, ovl, panicked>>

\* self.col.borrow_mut().set_low()?;
SetLow(p, res, took) ==
    /\ pc[p] = "low_write"
    /\ Write(p, "set_low", set_low(colKind), res, took)
    /\ ret' = IF res = "Ok" THEN ret ELSE [ret EXCEPT ![p] = Err(res)]
    /\ pc' = [pc EXCEPT ![p] = IF res = "Ok" THEN "sample" ELSE "done"]

\* Variant of Sample over an input whose is_low answers Ok(false) for a
\* floating pin instead of panicking.
SampleFloatReadsHigh(p, res) ==
    /\ CanStep(p)
    /\ pc[p] = "sample"
    /\ log' = [log EXCEPT ![p] = Append(@, Op("is_low", row[p], res))]
    /\ out' = IF res = "Ok"
              THEN [out EXCEPT ![p] = pin_is_low(RowState(row[p]))]
              ELSE out
    /\ ret' = IF res = "Ok" THEN ret ELSE [ret EXCEPT ![p] = Err(res)]
    /\ pc' = [pc EXCEPT ![p] = IF res = "Ok" THEN "high_borrow" ELSE "done"]
    /\ UNCHANGED <<pressed, colKind, colState, borrow, row, col, pre, quiet,
                   ovl, panicked>>

\* let out = self.row.is_low()?;
Sample(p, res) ==
    /\ CanStep(p)
    /\ pc[p] = "sample"
    /\ IF RowState(row[p]) = "Float"
       THEN /\ log' = [log EXCEPT ![p] = Append(@, Op("is_low", row[p], "Panic"))]
            /\ panicked' = p
            /\ UNCHANGED <<out, ret, pc>>
       ELSE /\ log' = [log EXCEPT ![p] = Append(@, Op("is_low", row[p], res))]
            /\ out' = IF res = "Ok"
                      THEN [out EXCEPT ![p] = pin_is_low(RowState(row[p]))]
                      ELSE out
            /\ ret' = IF res = "Ok" THEN ret ELSE [ret EXCEPT ![p] = Err(res)]
            /\ pc' = [pc EXCEPT ![p] =
                         IF res = "Ok" THEN "high_borrow" ELSE "done"]
            /\ panicked' = panicked
    /\ UNCHANGED <<pressed, colKind, colState, borrow, row, col, pre, quiet,
                   ovl>>

\* self.col.borrow_mut() of the third statement
BorrowHigh(p) ==
    /\ CanStep(p)
    /\ pc[p] = "high_borrow"
    /\ IF borrow[col[p]] = "free"
       THEN /\ borrow' = [borrow EXCEPT ![col[p]] = p]
            /\ pc' = [pc EXCEPT ![p] = "high_write"]
            /\ panicked' = panicked
       ELSE /\ panicked' = p
            /\ UNCHANGED <<borrow, pc>>
    /\ UNCHANGED <<pressed, colKind, colState, row, col, out, ret, log, pre,
                   quiet, ovl>>

\* Variant of SetHigh that leaves the third statement out: the borrow is
\* given back and Ok(out) returned with the column never driven high.
SetHighSkipped(p, res, took) ==
    /\ CanStep(p)
    /\ pc[p] = "high_write"
    /\ res = "Ok" /\ took
    /\ borrow' = [borrow EXCEPT ![col[p]] = "free"]
    /\ ret' = [ret EXCEPT ![p] = Ok(out[p])]
    /\ pc' = [pc EXCEPT ![p] = "done"]
    /\ UNCHANGED <<pressed, colKind, colState, row, col, out, log, pre, quiet,
                   ovl, panicked>>

\* Variant of SetHigh whose write does not change the level of the column.
SetHighNoEffect(p, res, took) ==
    /\ pc[p] = "high_write"
    /\ Write(p, "set_high", colState[col[p]], res, took)
    /\ ret' = [ret EXCEPT ![p] = IF res = "Ok" THEN Ok(out[p]) ELSE Err(res)]
    /\ pc' = [pc EXCEPT ![p] = "done"]

\* Variant of SetHigh with `.ok();` in place of `?`: the error of set_high
\* is dropped and the sampled value returned.
SetHighSwallowsError(p, res, took) ==
    /\ pc[p] = "high_write"
    /\ Write(p, "set_high", set_high(colKind), res, took)
    /\ ret' = [ret EXCEPT ![p] = Ok(out[p])]
    /\ pc' = [pc EXCEPT ![p] = "done"]

\* Variant of SetHigh that puts the column back at the level it had when
\* the read began.
SetHighRestores(p, res, took) ==
    /\ pc[p] = "high_write"
    /\ Write(p, "set_high", pre[p], res, took)
    /\ ret' = [ret EXCEPT ![p] = IF res = "Ok" THEN Ok(out[p]) ELSE Err(res)]
    /\ pc' = [pc EXCEPT ![p] = "done"]

\* .set_high()?; Ok(out)
SetHigh(p, res, took) ==
    /\ pc[p] = "high_write"
    /\ Write(p, "set_high", set_high(colKind), res, took)
    /\ ret' = [ret EXCEPT ![p] = IF res = "Ok" THEN Ok(out[p]) ELSE Err(res)]
    /\ pc' = [pc EXCEPT ![p] = "done"]

\* The caller has taken the result; the context is ready for its next read.
Finish(p) ==
    /\ CanStep(p)
    /\ pc[p] = "done"
    /\ pc' = [pc EXCEPT ![p] = "idle"]
    /\ row' = [row EXCEPT ![p] = 0]
    /\ col' = [col EXCEPT ![p] = 0]
    /\ out' = [out EXCEPT ![p] = FALSE]
    /\ ret' = [ret EXCEPT ![p] = NoRet]
    /\ log' = [log EXCEPT ![p] = <<>>]
    /\ pre' = [pre EXCEPT ![p] = "High"]
    /\ quiet' = [quiet EXCEPT ![p] = FALSE]
    /\ ovl' = [ovl EXCEPT ![p] = "none"]
    /\ UNCHANGED <<pressed, colKind, colState, borrow, panicked>>

\* Variant of IsHigh without the `!`.
IsHighNotNegated(p) ==
    /\ CanStep(p)
    /\ pc[p] = "done"
    /\ meth[p] = "is_high"
    /\ hret[p] = NoRet
    /\ hret' = [hret EXCEPT ![p] = ret[p]]
    /\ UNCHANGED <<rvars, rowKind, meth, first, kvars>>

\* is_high: Ok(!self.is_low()?), once the is_low it calls has returned
IsHigh(p) ==
    /\ CanStep(p)
    /\ pc[p] = "done"
    /\ meth[p] = "is_high"
    /\ hret[p] = NoRet
    /\ hret' = [hret EXCEPT ![p] =
                  IF ret[p].tag = "Ok" THEN Ok(~ret[p].val) ELSE ret[p]]
    /\ UNCHANGED <<rvars, rowKind, meth, first, kvars>>

\* what a step of is_low leaves alone
Rest == UNCHANGED <<rowKind, meth, hret, first, kvars>>

\* A caller invokes method m on the KeypadInput of key (r, c).
Call(p, r, c, m) ==
    /\ Start(p, r, c)
    /\ meth' = [meth EXCEPT ![p] = m]
    /\ UNCHANGED <<rowKind, hret, first, kvars>>

\* The method the caller invoked has returned and the caller has taken
\* its result.
Return(p) ==
    /\ meth[p] = "is_high" => hret[p] # NoRet
    /\ Finish(p)
    /\ meth' = [meth EXCEPT ![p] = "is_low"]
    /\ hret' = [hret EXCEPT ![p] = NoRet]
    /\ UNCHANGED <<rowKind, first, kvars>>

\* is_low has returned and the caller keeps the first result it ever got,
\* with whether every column was inactive when that read began, and notes
\* whether it has since read a key of another column.
ReturnNoted(p) ==
    /\ Finish(p)
    /\ first' = IF ret[p].tag # "Ok" THEN first
                ELSE IF first.set
                THEN [first EXCEPT !.mixed = @ \/ col[p] # first.key[2]]
                ELSE [set |-> TRUE, key |-> <<row[p], col[p]>>,
                      val |-> ret[p].val,
                      calm |-> pre[p] = Inactive(colKind) /\ quiet[p],
                      mixed |-> FALSE]
    /\ UNCHANGED <<rowKind, meth, hret, kvars>>

(* ---------------------- actions on the container ---------------------- *)

\* The caller is between two calls and the container has not been moved.
Usable == panicked = "none" /\ pc["main"] = "idle" /\ pc["nested"] = "idle"

\* Variant of CallDecompose that also drives every column to its inactive
\* level.
CallDecomposeDrivesColumns ==
    /\ Usable
    /\ kstate = "Active"
    /\ Len(grids) < MaxGrids
    /\ grids' = Append(grids, decompose(keypad))
    /\ lastOp' = "decompose"
    /\ colState' = [c \in Cols |-> set_high(colKind)]
    /\ UNCHANGED <<pressed, colKind, borrow, pc, row, col, out, ret, log,
                   pre, quiet, ovl, panicked, rowKind, meth, hret, first,
                   kstate, keypad, given, released>>

\* Variant of CallDecompose that can be called on a container that has
\* been moved out of.
CallDecomposeAfterMove ==
    /\ Usable
    /\ Len(grids) < MaxGrids
    /\ grids' = Append(grids, decompose(keypad))
    /\ lastOp' = "decompose"
    /\ UNCHANGED <<rvars, rowKind, meth, hret, first, kstate, keypad, given,
                   released>>

\* keypad.decompose(): borrows the container for the life of the grid it
\* returns.  The container must not have been moved (release(self)).
CallDecompose ==
    /\ Usable
    /\ kstate = "Active"
    /\ Len(grids) < MaxGrids
    /\ grids' = Append(grids, decompose(keypad))
    /\ lastOp' = "decompose"
    /\ UNCHANGED <<rvars, rowKind, meth, hret, first, kstate, keypad, given,
                   released>>

\* The i-th grid goes out of scope: its KeypadInputs no longer borrow the
\* container.
DropGrid(i) ==
    /\ Usable
    /\ i \in 1 .. Len(grids)
    /\ grids' = SubSeq(grids, 1, i - 1) \o SubSeq(grids, i + 1, Len(grids))
    /\ lastOp' = "drop"
    /\ UNCHANGED <<rvars, rowKind, meth, hret, first, kstate, keypad, given,
                   released>>

\* Variant of CallRelease that moves the container while it is borrowed.
CallReleaseUnchecked ==
    /\ Usable
    /\ kstate = "Active"
    /\ kstate' = "Released"
    /\ released' = release(keypad)
    /\ lastOp' = "release"
    /\ UNCHANGED <<rvars, rowKind, meth, hret, first, keypad, given, grids>>

\* keypad.release(): moves the container, which the borrow checker accepts
\* only when no grid borrows it (`&'a self` of decompose against `self` of
\* release); a release written while a grid is alive does not compile and
\* nothing is moved.
CallRelease ==
    /\ Usable
    /\ kstate = "Active"
    /\ IF grids = <<>>
       THEN /\ kstate' = "Released"
            /\ released' = release(keypad)
            /\ lastOp' = "release"
       ELSE /\ lastOp' = "release_rejected"
            /\ UNCHANGED <<kstate, released>>
    /\ UNCHANGED <<rvars, rowKind, meth, hret, first, keypad, given, grids>>

\* A caller invokes is_low() on cell [r][c] of the k-th live grid.
ReadCell(k, r, c) ==
    /\ kstate = "Active"
    /\ k \in 1 .. Len(grids)
    /\ Start("main", grids[k][r][c].row, grids[k][r][c].col)
    /\ lastOp' = "read"
    /\ UNCHANGED <<rowKind, meth, hret, first, kstate, keypad, given, grids,
                   released>>

(* --------------------------- specifications --------------------------- *)

\* Reads issued one after the other by a single context, over pins whose
\* operations may fail.
Next ==
    \/ \E r \in Rows, c \in Cols, m \in Methods : Call("main", r, c, m)
    \/ \E res \in Results, took \in BOOLEAN : SetLow("main", res, took) /\ Rest
    \/ \E res \in Results : Sample("main", res) /\ Rest
    \/ BorrowHigh("main") /\ Rest
    \/ \E res \in Results, took \in BOOLEAN : SetHigh("main", res, took) /\ Rest
    \/ IsHigh("main")
    \/ Return("main")

Spec == Init /\ [][Next]_vars

\* Reads of "main" interrupted by reads of "nested", over pins whose
\* operations succeed (the mock pins: Error = Infallible).
NestedNext ==
    \E p \in Ctx :
        \/ \E r \in Rows, c \in Cols : Start(p, r, c) /\ Rest
        \/ SetLow(p, "Ok", TRUE) /\ Rest
        \/ Sample(p, "Ok") /\ Rest
        \/ BorrowHigh(p) /\ Rest
        \/ SetHigh(p, "Ok", TRUE) /\ Rest
        \/ Finish(p) /\ Rest

NestedSpec == Init /\ [][NestedNext]_vars

\* Reads issued one after the other over the mock pins in any of their
\* modes (Error = Infallible).
MockNext ==
    \/ \E r \in Rows, c \in Cols : Start("main", r, c) /\ Rest
    \/ SetLow("main", "Ok", TRUE) /\ Rest
    \/ Sample("main", "Ok") /\ Rest
    \/ BorrowHigh("main") /\ Rest
    \/ SetHigh("main", "Ok", TRUE) /\ Rest
    \/ ReturnNoted("main")

MockSpec == MockInit /\ [][MockNext]_vars

\* The life of the container: grids are taken and dropped, keys are read
\* through the cells of the live grids, and the pins are released.
ContainerNext ==
    \/ CallDecompose
    \/ \E i \in 1 .. MaxGrids : DropGrid(i)
    \/ CallRelease
    \/ \E k \in 1 .. MaxGrids, r \in Rows, c \in Cols : ReadCell(k, r, c)
    \/ SetLow("main", "Ok", TRUE) /\ Rest
    \/ Sample("main", "Ok") /\ Rest
    \/ BorrowHigh("main") /\ Rest
    \/ SetHigh("main", "Ok", TRUE) /\ Rest
    \/ Finish("main") /\ Rest

ContainerSpec == ContainerInit /\ [][ContainerNext]_vars

(* ------------------------- properties of reads ------------------------ *)

Done(p) == pc[p] = "done"

Returned(p) == Done(p) /\ ret[p].tag = "Ok"

AllOk(l) == \A i \in 1 .. Len(l) : l[i].res = "Ok"

Times(l, name) == Cardinality({i \in 1 .. Len(l) : l[i].op = name})

KeyOf(p) == <<row[p], col[p]>>

\* between the end of the assert and the de-assert of the read's column
InScan(p) == pc[p] \in {"sample", "high_borrow", "high_write"}

\* inside one of the two statements that hold the RefMut
InWrite(p) == pc[p] \in {"low_write", "high_write"}

\* every column was inactive when the read of "main" began
CalmStart == pre["main"] = Inactive(colKind) /\ quiet["main"]

\* C1: a read during which no pin operation failed has performed exactly
\* three pin operations, in this order: set_low on its column, is_low on
\* its row, set_high on its column; so the column was written exactly twice.
C1_ScanProtocol ==
    \A p \in Ctx :
        (Done(p) /\ AllOk(log[p])) =>
            /\ log[p] = << Op("set_low", col[p], "Ok"),
                          Op("is_low", row[p], "Ok"),
                          Op("set_high", col[p], "Ok") >>
            /\ Times(log[p], "set_low") + Times(log[p], "set_high") = 2

C1_Witness ==
    /\ Returned("main")
    /\ KeyOf("main") = <<NumRows - 1, NumCols - 1>>
    /\ Len(log["main"]) = 3

\* C2 (state part): every pin operation of a read is a write of the read's
\* own column or a read of its own row; rows are only ever read.
C2_OwnPinsOnly ==
    \A p \in Ctx : \A i \in 1 .. Len(log[p]) :
        \/ log[p][i].op \in {"set_low", "set_high"} /\ log[p][i].pin = col[p]
        \/ log[p][i].op = "is_low" /\ log[p][i].pin = row[p]

\* C2 (step part): a step of the read of (r, c) leaves the level of every
\* column other than c as it was.
C2_StepFrame ==
    \A p \in Ctx :
        pc'[p] # pc[p] =>
            \A d \in Cols \ {IF pc[p] = "idle" THEN col'[p] ELSE col[p]} :
                colState'[d] = colState[d]

\* C2: a read of (r, c) never writes a column other than c, at any of its
\* steps, never reads a row other than r, and never writes a row.
C2_Frame == []C2_OwnPinsOnly /\ [][C2_StepFrame]_vars

C2_Witness ==
    /\ InScan("main")
    /\ pc["nested"] = "done"
    /\ col["nested"] # col["main"]
    /\ Len(log["nested"]) = 3
    /\ colState[col["main"]] = "Low"
    /\ colState[col["nested"]] = Inactive(colKind)

\* C3 as stated: two reads of keys of the same column are never both
\* between their assert and their de-assert of that column.
C3_ScansNeverOverlap ==
    \A p \in Ctx :
        (InScan(p) /\ InScan(Other(p))) => col[p] # col[Other(p)]

\* C3 amended: two reads of keys of the same column never hold the mutable
\* borrow of the column together, that is, are never both inside a write of
\* the column; a borrow_mut() panics only against a write in progress of
\* the same column by the other read.
C3_WritesNeverOverlap ==
    /\ \A p \in Ctx :
          (InWrite(p) /\ InWrite(Other(p))) => col[p] # col[Other(p)]
    /\ \A p \in Ctx :
          panicked = p => InWrite(Other(p)) /\ col[p] = col[Other(p)]

C3_Witness ==
    /\ panicked = "nested"
    /\ pc["main"] = "high_write"
    /\ col["nested"] = col["main"]
    /\ row["nested"] # row["main"]

\* C4 as stated: the borrow of the column is held by the read from before
\* its assert until after its de-assert.
C4_GuardHeldForScan ==
    \A p \in Ctx : (InWrite(p) \/ InScan(p)) => borrow[col[p]] = p

\* C4 amended: the borrow of column c is held by a read exactly while it is
\* inside one of its two writes of c, and is free while the row is sampled;
\* a read of a key of column c that starts while a write of c is in
\* progress panics at its first step, having performed no pin operation.
C4_GuardHeldPerWrite ==
    /\ \A p \in Ctx, c \in Cols :
          borrow[c] = p <=> (InWrite(p) /\ col[p] = c)
    /\ \A p \in Ctx :
          panicked = p => pc[p] = "low_borrow" /\ log[p] = <<>>
    /\ \A p \in Ctx :
          (Running(p) /\ Running(Other(p)) /\ col[p] = col[Other(p)]
              /\ InWrite("main")) => panicked = "nested"

C4_Witness ==
    /\ panicked = "nested"
    /\ pc["main"] = "low_write"
    /\ col["nested"] = col["main"]
    /\ log["nested"] = <<>>

\* C5 as stated: with all columns inactive beforehand, a read that was
\* interleaved only with reads of other columns returns what it returns
\* alone, namely whether its key is pressed.
C5_Independent ==
    \A p \in Ctx :
        (Returned(p) /\ ovl[p] = "other" /\ CalmStart) =>
            (ret[p].val <=> KeyOf(p) \in pressed)

\* C5 amended: with all columns inactive beforehand, the interrupted read
\* returns what it returns alone; the nested read of (r2, c2) returns true
\* when key (r2, c2) is pressed or when key (r2, c1) is pressed and the
\* interrupted read holds its column c1 low, and false otherwise.
C5_IndependentUnlessGhosted ==
    /\ (Returned("main") /\ ovl["main"] = "other" /\ CalmStart) =>
          (ret["main"].val <=> KeyOf("main") \in pressed)
    /\ (Returned("nested") /\ ovl["nested"] = "other" /\ CalmStart) =>
          (ret["nested"].val <=>
              \/ KeyOf("nested") \in pressed
              \/ /\ <<row["nested"], col["main"]>> \in pressed
                 /\ colState[col["main"]] = "Low")

C5_Witness ==
    /\ Returned("nested")
    /\ ovl["nested"] = "other"
    /\ CalmStart
    /\ ret["nested"].val
    /\ KeyOf("nested") \notin pressed

\* C6 as stated: a read whose assert succeeded has performed the de-assert
\* (set_high on its column) by the time it returns, whatever it returns.
C6_DeassertOnEveryExit ==
    \A p \in Ctx :
        (Done(p) /\ Len(log[p]) >= 1 /\ log[p][1].res = "Ok") =>
            Times(log[p], "set_high") = 1

\* C7: when the assert (set_low) fails, the read returns that error at
\* once: the row is not read and no set_high is issued.
C7_AssertFailFast ==
    \A p \in Ctx :
        (Len(log[p]) >= 1 /\ log[p][1].res # "Ok") =>
            /\ Done(p)
            /\ log[p] = << Op("set_low", col[p], log[p][1].res) >>
            /\ ret[p] = Err(log[p][1].res)

C7_Witness ==
    /\ Done("main")
    /\ log["main"] = << Op("set_low", col["main"], "E2") >>

\* C8: a read returns an error exactly when one of its pin operations
\* failed; the error is that of the failing operation, which is the last
\* one performed (a failing set_high after a successful sample included);
\* a successful read returns the sampled value; and set_low, is_low and
\* set_high are each attempted at most once.
C8_ErrorsPropagated ==
    \A p \in Ctx :
        /\ \A name \in {"set_low", "is_low", "set_high"} :
              Times(log[p], name) <= 1
        /\ Done(p) =>
              /\ ret[p].tag = "Err" <=> ~AllOk(log[p])
              /\ ret[p].tag = "Err" =>
                    /\ ret[p] = Err(log[p][Len(log[p])].res)
                    /\ AllOk(SubSeq(log[p], 1, Len(log[p]) - 1))
              /\ ret[p].tag = "Ok" => ret[p] = Ok(out[p])

C8_Witness ==
    /\ Done("main")
    /\ Len(log["main"]) = 3
    /\ out["main"]
    /\ ret["main"] = Err("E1")

C10_NoNetChange ==
    \A p \in Ctx : Returned(p) => colState[col[p]] = pre[p]

\* C10 amended: after a read without failure has returned, its column is at
\* its inactive level (high for push-pull, floating for open-drain); that
\* is the level it had before the read exactly when it was inactive then.
C10_EndsInactive ==
    \A p \in Ctx :
        Returned(p) =>
            /\ colState[col[p]] = Inactive(colKind)
            /\ colState[col[p]] = pre[p] <=> pre[p] = Inactive(colKind)

C10_Witness ==
    /\ Returned("main")
    /\ pre["main"] = "Low"
    /\ colState[col["main"]] = "High"

(* --------------------- properties of the container -------------------- *)

\* C11: every grid returned by decompose() has exactly as many rows as row
\* pins were given and, in each row, as many cells as column pins were
\* given; the cell at [r][c] refers to the r-th row pin and to the c-th
\* column pin in the order in which they were given.
C11_GridShape ==
    \A k \in 1 .. Len(grids) :
        /\ DOMAIN grids[k] = 0 .. (Len(given.rows) - 1)
        /\ \A r \in DOMAIN grids[k] :
              /\ DOMAIN grids[k][r] = 0 .. (Len(given.columns) - 1)
              /\ \A c \in DOMAIN grids[k][r] :
                    /\ RowPinOf(keypad, grids[k][r][c]) = given.rows[r + 1]
                    /\ ColPinOf(keypad, grids[k][r][c]) = given.columns[c + 1]

C11_Witness ==
    /\ lastOp = "decompose"
    /\ Len(grids) >= 1
    /\ given.rows # RowPins
    /\ given.columns # ColPins
    /\ RowPinOf(keypad, grids[1][NumRows - 1][NumCols - 1]) = given.rows[NumRows]

\* C12: the container is never Released while a KeypadInput is alive:
\* release() has moved the pins out only when no grid was alive, and a
\* release attempted while a grid is alive is rejected, moves nothing and
\* leaves the container Active.
C12_NoReleaseWhileBorrowed ==
    /\ kstate = "Released" => grids = <<>>
    /\ released # NoPins <=> kstate = "Released"
    /\ lastOp = "release_rejected" =>
          /\ kstate = "Active"
          /\ grids # <<>>
          /\ released = NoPins

C12_Witness ==
    /\ lastOp = "release_rejected"
    /\ kstate = "Active"
    /\ Len(grids) = MaxGrids
    /\ released = NoPins

\* C13 (step part): the only change of the container's state is from
\* Active to Released, made by release(); and nothing happens to a
\* Released container: no decompose, no read, no second release.
C13_Step ==
    /\ kstate' # kstate =>
          /\ kstate = "Active"
          /\ kstate' = "Released"
          /\ lastOp' = "release"
    /\ kstate = "Released" => UNCHANGED vars

\* C13: the container is Active after construction and is always Active
\* or Released; while it is Active decompose() can be called again (up to
\* the bound on live grids); only release() makes it Released, neither
\* decompose() nor a read changes its state; Released is final.
C13_Lifecycle ==
    /\ kstate = "Active"
    /\ [](kstate \in Lifecycle)
    /\ []((kstate = "Active" /\ Usable /\ Len(grids) < MaxGrids)
              => ENABLED CallDecompose)
    /\ [][C13_Step]_vars

C13_Witness ==
    /\ kstate = "Released"
    /\ lastOp = "release"
    /\ colKind = "PushPull"
    /\ \A c \in Cols : colState[c] = "High"

\* C14: when release() has returned, after any decompose() calls and reads,
\* it has returned exactly the row pins that were given, in the order
\* given, and the column pins that were given, in the order given, each
\* still inside its RefCell.
C14_RoundTrip ==
    kstate = "Released" =>
        /\ released[1] = given.rows
        /\ released[2] =
              [i \in 1 .. Len(given.columns) |-> RefCell(given.columns[i])]

C14_Witness ==
    /\ kstate = "Released"
    /\ given.rows # RowPins
    /\ given.columns # ColPins
    /\ released[1] = given.rows
    /\ colKind = "PushPull"
    /\ \E c \in Cols : colState[c] = "High"

(* ------------------------ properties of the mock ---------------------- *)

\* C15 as stated: with the keys unchanged and no failing pin operation,
\* every read of a key returns what the first read of that key returned,
\* also when keys of other columns were read in between.
C15_Idempotent ==
    (Returned("main") /\ first.set /\ first.key = KeyOf("main")) =>
        ret["main"].val = first.val

\* C15 amended: with the keys unchanged and no failing pin operation,
\* every read of a key returns what the first read of that key returned,
\* provided every column was inactive when that first read began or no
\* key of another column has been read in between.
C15_IdempotentWhenCalm ==
    (Returned("main") /\ first.set /\ first.key = KeyOf("main")
        /\ (first.calm \/ ~first.mixed)) =>
            ret["main"].val = first.val

C15_Witness ==
    /\ Returned("main")
    /\ first.set
    /\ first.key = KeyOf("main")
    /\ first.calm
    /\ first.mixed
    /\ first.val
    /\ ret["main"].val

(* ------------------------- properties of is_high ---------------------- *)

\* C16 (state part): when is_high has returned, the is_low it called has
\* returned; is_high returns the negation of the boolean is_low returned,
\* or the very error is_low returned; and the pin operations performed are
\* those of is_low: set_low on the column, is_low on the row, set_high on
\* the column, up to the first that failed.
C16_Negation ==
    \A p \in Ctx :
        (meth[p] = "is_high" /\ hret[p] # NoRet) =>
            /\ Done(p)
            /\ ret[p].tag = "Ok" => hret[p] = Ok(~ret[p].val)
            /\ ret[p].tag = "Err" => hret[p] = ret[p]
            /\ ret[p].tag \in {"Ok", "Err"}
            /\ Len(log[p]) \in 1 .. 3
            /\ \A i \in 1 .. Len(log[p]) :
                  /\ log[p][i].op = << "set_low", "is_low", "set_high" >>[i]
                  /\ log[p][i].pin = IF i = 2 THEN row[p] ELSE col[p]
                  /\ i < Len(log[p]) => log[p][i].res = "Ok"
            /\ Len(log[p]) < 3 => log[p][Len(log[p])].res # "Ok"

\* C16 (step part): the negation itself performs no pin operation and
\* leaves every column and every borrow as is_low left it.
C16_Step ==
    \A p \in Ctx :
        (hret[p] = NoRet /\ hret'[p] # NoRet) =>
            UNCHANGED <<log, colState, borrow, ret, pc>>

\* C16: is_high returns the negation of what is_low returns in the same
\* state and the same error whenever is_low returns an error, with the same
\* pin operations and the same resulting column levels.
C16_IsHigh == []C16_Negation /\ [][C16_Step]_vars

C16_Witness ==
    /\ meth["main"] = "is_high"
    /\ hret["main"] = Ok(TRUE)
    /\ ret["main"] = Ok(FALSE)
    /\ Len(log["main"]) = 3

(* ------------------------ properties of decompose --------------------- *)

\* C17 (state part): in all the grids that are alive together, the cells
\* at the same [r][c] refer to the same row pin and the same column pin.
C17_SameCells ==
    \A j \in 1 .. Len(grids), k \in 1 .. Len(grids) :
        \A r \in Rows, c \in Cols :
            /\ RowPinOf(keypad, grids[j][r][c]) = RowPinOf(keypad, grids[k][r][c])
            /\ ColPinOf(keypad, grids[j][r][c]) = ColPinOf(keypad, grids[k][r][c])

\* C17 (step part): a call of decompose() adds one grid next to those that
\* are alive and performs no pin operation: no column level, no borrow, no
\* read in flight and no field of the container changes.  A read started
\* through a cell of one grid is the read of the cell at the same place of
\* every other grid.
C17_Step ==
    /\ (lastOp' = "decompose" /\ grids' # grids) =>
          /\ SubSeq(grids', 1, Len(grids)) = grids
          /\ Len(grids') = Len(grids) + 1
          /\ UNCHANGED <<colState, borrow, log, pc, panicked, kstate, keypad>>
    /\ (pc["main"] = "idle" /\ pc'["main"] # "idle") =>
          \E r \in Rows, c \in Cols :
              \A k \in 1 .. Len(grids) :
                  grids[k][r][c] = KeypadInputNew(row'["main"], col'["main"])

\* C17: decompose() is free of side effects on the pins and can be
\* repeated; its grids coexist and agree cell by cell, so a read through
\* one grid is the same read as through any other.
C17_DecomposePure == []C17_SameCells /\ [][C17_Step]_vars

C17_Witness ==
    /\ lastOp = "decompose"
    /\ Len(grids) = MaxGrids
    /\ colKind = "PushPull"
    /\ colState[0] = "High"
    /\ colState[NumCols - 1] = "Low"

(* --------------------- properties of the mock keypad ------------------ *)

\* the keypad of examples/basic.rs: pull-up mock rows, open-drain mock
\* columns, and nothing that pulls a row low
MockDefaults ==
    rowKind = "PullUp" /\ colKind = "OpenDrain" /\ pressed = {}

\* C18: on pull-up mock rows (default High) and open-drain mock columns
\* (default Float) without stimulus, every read of every key, in any order
\* and however often, returns Ok(false), and no read panics.
C18_MockReadsFalse ==
    MockDefaults =>
        /\ panicked = "none"
        /\ Done("main") => ret["main"] = Ok(FALSE)
        /\ first.set => ~first.val

C18_Witness ==
    /\ MockDefaults
    /\ Done("main")
    /\ ret["main"] = Ok(FALSE)
    /\ KeyOf("main") = <<NumRows - 1, NumCols - 1>>
    /\ first.set
    /\ first.mixed
    /\ first.key = KeyOf("main")

(* ------------------------ termination of a read ----------------------- *)

\* the next step of a read in flight over pins whose operations return
OwnStep(p) ==
    /\ \/ SetLow(p, "Ok", TRUE)
       \/ Sample(p, "Ok")
       \/ BorrowHigh(p)
       \/ SetHigh(p, "Ok", TRUE)
    /\ Rest

\* how far a read has got
Rank(at) ==
    CASE at = "idle" -> 0
      [] at = "low_borrow" -> 1
      [] at = "low_write" -> 2
      [] at = "sample" -> 3
      [] at = "high_borrow" -> 4
      [] at = "high_write" -> 5
      [] at = "done" -> 6

\* a read that has begun and not returned, and is not suspended under a
\* nested read
Active(p) == Running(p) /\ (p = "main" => pc["nested"] = "idle")

\* C19 as stated: a read that has begun and not yet returned always has a
\* next step to take, and has performed at most three pin operations: it
\* never waits and always goes on to return.
C19_AlwaysReturns ==
    \A p \in Ctx :
        /\ Len(log[p]) <= 3
        /\ Active(p) => ENABLED OwnStep(p)

\* C19 amended (state part): a read has performed at most three pin
\* operations, as many as its position tells; a read that has begun and not
\* returned has a next step to take unless a borrow_mut() has panicked; a
\* panic is raised by the read that found the column borrowed, at once and
\* without waiting, and a read that is done has returned.
C19_NeverWaits ==
    \A p \in Ctx :
        /\ Len(log[p]) <= 3
        /\ pc[p] \in {"idle", "low_borrow", "low_write"} => Len(log[p]) = 0
        /\ pc[p] = "sample" => Len(log[p]) = 1
        /\ pc[p] \in {"high_borrow", "high_write"} => Len(log[p]) = 2
        /\ Done(p) => ret[p].tag \in {"Ok", "Err"}
        /\ (Active(p) /\ panicked = "none") => ENABLED OwnStep(p)
        /\ panicked = p =>
              /\ pc[p] \in {"low_borrow", "high_borrow"}
              /\ borrow[col[p]] = Other(p)

\* C19 amended (step part): every step of a read in flight takes it
\* further towards its return.
C19_Progress ==
    \A p \in Ctx :
        (Running(p) /\ pc'[p] # pc[p]) => Rank(pc'[p]) > Rank(pc[p])

\* C19 amended: a read never waits for another read or for an event: it
\* performs at most three pin operations, each of its steps takes it
\* further, and it ends by returning or, when it is entered during a write
\* of its column by the read it interrupted, by the panic of borrow_mut().
C19_Terminates == []C19_NeverWaits /\ [][C19_Progress]_vars

C19_Witness ==
    /\ panicked = "nested"
    /\ pc["nested"] = "low_borrow"
    /\ log["nested"] = <<>>
    /\ pc["main"] = "high_write"
    /\ Len(log["main"]) = 2
    /\ borrow[col["nested"]] = "main"

(* ------------------------- release of the guard ----------------------- *)

\* C20: whenever no read is inside one of its writes, and so after any
\* read has returned (a boolean, or the error of set_low, of the row's
\* is_low or of set_high), the RefCell of every column is free; reads
\* issued one after the other never panic on borrow_mut().
C20_GuardReleased ==
    /\ panicked = "none"
    /\ \A c \in Cols :
          borrow[c] # "free" => (InWrite("main") /\ col["main"] = c)
    /\ Done("main") => \A c \in Cols : borrow[c] = "free"

C20_Witness ==
    /\ colKind = "OpenDrain"
    /\ pc["main"] = "low_write"
    /\ borrow[col["main"]] = "main"
    /\ colState[col["main"]] = "Low"
    /\ \E d \in Cols \ {col["main"]} : colState[d] = "Low"

(* ------------------------- quiescence of columns ---------------------- *)

\* no write of a column by the read of p has failed
WritesOk(p) ==
    \A i \in 1 .. Len(log[p]) :
        log[p][i].op \in {"set_low", "set_high"} => log[p][i].res = "Ok"

\* C21 as stated: from the moment a read begins with every column
\* inactive, and as long as its writes of the column succeed, a column is
\* asserted only while that read is in progress and only if it is the
\* read's own column; so once the read has returned, whatever it returned,
\* every column is inactive again.
C21_Quiescent ==
    (CalmStart /\ pc["main"] # "idle" /\ WritesOk("main")) =>
        \A c \in Cols :
            colState[c] = "Low" => (Running("main") /\ col["main"] = c)

\* C22: a read of a key of column c that performed its three pin
\* operations without failure leaves column c de-asserted, also when it
\* found column c asserted, left so by an earlier read that failed.
C22_Recovery ==
    \A p \in Ctx :
        (Done(p) /\ Len(log[p]) = 3 /\ AllOk(log[p])) =>
            /\ colState[col[p]] # "Low"
            /\ pre[p] = "Low" => colState[col[p]] = set_high(colKind)

C22_Witness ==
    /\ colKind = "OpenDrain"
    /\ Done("main")
    /\ AllOk(log["main"])
    /\ pre["main"] = "Low"
    /\ colState[col["main"]] = "Float"
    /\ \E d \in Cols \ {col["main"]} : colState[d] = "Low"

(* --------------------------- construction ----------------------------- *)

\* C23: right after keypad_new! the container holds the row pins as given
\* and, in the order given, each column pin inside a RefCell of its own
\* that is not borrowed; no pin operation has been performed; every row
\* and every column is at the level it had when handed in, so a push-pull
\* mock column is still Low and not at its inactive level.
C23_ConstructionInert ==
    lastOp = "new" =>
        /\ kstate = "Active"
        /\ keypad.rows = given.rows
        /\ DOMAIN keypad.columns = DOMAIN given.columns
        /\ \A i \in DOMAIN given.columns :
              keypad.columns[i] = RefCell(given.columns[i])
        /\ \A c \in Cols :
              /\ colState[c] = DefaultState(colKind)
              /\ borrow[c] = "free"
        /\ \A r \in Rows : RowState(r) = DefaultInput(rowKind)
        /\ \A p \in Ctx : log[p] = <<>> /\ pc[p] = "idle"
        /\ panicked = "none"

C23_Witness ==
    /\ lastOp = "new"
    /\ given.columns # ColPins
    /\ colKind = "PushPull"
    /\ \A c \in Cols : colState[c] = "Low" /\ colState[c] # Inactive(colKind)
    /\ keypad.columns[NumCols] = RefCell(given.columns[NumCols])

(* ------------------------- floating mock input ------------------------ *)

\* C24: with floating mock inputs as rows no read returns: the read of
\* key (r, c) asserts column c, panics in is_low of row r, and so ends
\* with column c asserted, the borrow given back, and neither a set_high
\* nor a result; nothing runs after the panic.
C24_FloatingRowPanics ==
    rowKind = "Floating" =>
        /\ ~Done("main")
        /\ pc["main"] \in {"idle", "low_write", "sample"}
        /\ ret["main"] = NoRet
        /\ Times(log["main"], "set_high") = 0
        /\ Len(log["main"]) = 2 => panicked = "main"
        /\ panicked = "main" =>
              /\ pc["main"] = "sample"
              /\ log["main"] = << Op("set_low", col["main"], "Ok"),
                                 Op("is_low", row["main"], "Panic") >>
              /\ colState[col["main"]] = "Low"
              /\ borrow[col["main"]] = "free"

C24_Witness ==
    /\ rowKind = "Floating"
    /\ colKind = "OpenDrain"
    /\ panicked = "main"
    /\ KeyOf("main") = <<NumRows - 1, NumCols - 1>>
    /\ colState[col["main"]] = "Low"
    /\ Len(log["main"]) = 2

====
